---- MODULE Spec2Model ----
(***************************************************************************)
(* Alexandria clinical text extractor (src/extractor.py) and the chat      *)
(* surface that calls it (src/app.py).                                     *)
(*                                                                         *)
(* Text is a sequence of one-character strings, so that lower-casing,      *)
(* substring containment and the three severity regular expressions are    *)
(* computed character by character.  A float score is kept in hundredths.  *)
(* Python's None is the empty tuple, a present value v is <<v>>.           *)
(***************************************************************************)
EXTENDS Integers, Sequences, FiniteSets, TLC

VARIABLES
    SNOMED_SYMPTOM_MAP,   \* module global: insertion-ordered <<phrase, code>> pairs
    SYMPTOM_KEYWORDS,     \* module global: phrases sorted by length, longest first
    pc,                   \* per caller: position inside extract_clinical_data
    user_text,            \* per caller: the argument of the call
    found,                \* per caller: local list of _extract_symptoms
    symptoms,             \* per caller: local of extract_clinical_data
    snomed_codes,         \* per caller: local of extract_clinical_data
    severity,             \* per caller: local of extract_clinical_data
    confidence,           \* per caller: local of extract_clinical_data
    result,               \* per caller: the returned record, None before return
    chat_history,         \* st.session_state.chat_history
    app_pc,               \* position of the running script main()
    prompt,               \* local of main(): value of st.chat_input
    extracted,            \* local of main(): record returned by the extractor
    extract_calls         \* number of extractor invocations made by main()

extractorVars == <<pc, user_text, found, symptoms, snomed_codes, severity, confidence, result>>
globalVars == <<SNOMED_SYMPTOM_MAP, SYMPTOM_KEYWORDS>>
appVars == <<chat_history, app_pc, prompt, extracted, extract_calls>>
vars == <<globalVars, extractorVars, appVars>>

-----------------------------------------------------------------------------
(* Bounds of the model *)

\* longest input, in fragments of InputFragments
MaxFrags == 2
\* number of callers that run the extractor side by side
NumCallers == 2
\* number of chat turns submitted in one session
MaxTurns == 3

-----------------------------------------------------------------------------
(* Values *)

None == <<>>
Some(v) == <<v>>

Digits == <<"0","1","2","3","4","5","6","7","8","9">>
UpperLetters == <<"A","B","C","D","E","F","G","H","I","J","K","L","M","N","O","P","Q","R","S","T","U","V","W","X","Y","Z">>
LowerLetters == <<"a","b","c","d","e","f","g","h","i","j","k","l","m","n","o","p","q","r","s","t","u","v","w","x","y","z">>

Range(s) == {s[i] : i \in DOMAIN s}

IsDigit(c) == c \in Range(Digits)
IsSpace(c) == c \in {" ", "\t", "\n", "\r"}
IsWordChar(c) == c \in Range(Digits) \cup Range(UpperLetters) \cup Range(LowerLetters) \cup {"_"}

\* int() of one digit character
DigitValue(c) == (CHOOSE i \in DOMAIN Digits : Digits[i] = c) - 1

\* str.lower() on one character
LowerChar(c) ==
    IF c \in Range(UpperLetters)
    THEN LowerLetters[CHOOSE i \in DOMAIN UpperLetters : UpperLetters[i] = c]
    ELSE c

\* str.lower()
lower(text) == [i \in 1..Len(text) |-> LowerChar(text[i])]

\* Python's `kw in s` for strings
Contains(kw, s) ==
    \E i \in 0..(Len(s) - Len(kw)) : SubSeq(s, i + 1, i + Len(kw)) = kw

\* first present value of a sequence of optional values, in order
FirstSome(opts) ==
    IF \E i \in DOMAIN opts : opts[i] # None
    THEN opts[CHOOSE i \in DOMAIN opts :
                 opts[i] # None /\ \A j \in 1..(i - 1) : opts[j] = None]
    ELSE None

-----------------------------------------------------------------------------
(* The catalog, src/extractor.py:8-22 *)

CATALOG ==
    << << <<"p","e","l","v","i","c"," ","p","a","i","n">>,     <<"2","1","5","2","2","0","0","1">>  >>,
       << <<"l","o","w","e","r"," ","b","a","c","k"," ","p","a","i","n">>, <<"2","7","9","0","3","9","0","0","7">> >>,
       << <<"c","r","a","m","p","s">>,          <<"8","4","3","8","7","0","0","0">>  >>,
       << <<"d","y","s","m","e","n","o","r","r","h","e","a">>,    <<"2","6","6","5","9","9","0","0","0">> >>,
       << <<"f","a","t","i","g","u","e">>,         <<"8","4","2","2","9","0","0","1">>  >>,
       << <<"n","a","u","s","e","a">>,          <<"4","2","2","5","8","7","0","0","7">> >>,
       << <<"m","i","g","r","a","i","n","e">>,        <<"3","7","7","9","6","0","0","9">>  >>,
       << <<"b","l","o","a","t","i","n","g">>,        <<"1","1","6","2","8","9","0","0","8">> >>,
       << <<"h","e","a","d","a","c","h","e">>,        <<"2","5","0","6","4","0","0","2">>  >>,
       << <<"a","b","d","o","m","i","n","a","l"," ","p","a","i","n">>,  <<"2","1","5","2","2","0","0","1">>  >> >>

\* dict.keys(): the phrases in insertion order
keys(map) == [i \in DOMAIN map |-> map[i][1]]

\* dict[key]
Lookup(map, key) == map[CHOOSE i \in DOMAIN map : map[i][1] = key][2]

\* where sorted(..., key=len, reverse=True) puts x into an already sorted
\* list: behind every element at least as long (the sort is stable)
InsertByLenDesc(sorted, x) ==
    LET k == Cardinality({i \in DOMAIN sorted : Len(sorted[i]) >= Len(x)})
    IN  SubSeq(sorted, 1, k) \o <<x>> \o SubSeq(sorted, k + 1, Len(sorted))

RECURSIVE SortedFrom(_, _)
SortedFrom(acc, rest) ==
    IF rest = <<>> THEN acc
    ELSE SortedFrom(InsertByLenDesc(acc, Head(rest)), Tail(rest))

RECURSIVE SortedAscFrom(_, _)
SortedAscFrom(acc, rest) ==
    IF rest = <<>> THEN acc
    ELSE LET x == Head(rest)
             k == Cardinality({i \in DOMAIN acc : Len(acc[i]) <= Len(x)})
         IN  SortedAscFrom(SubSeq(acc, 1, k) \o <<x>> \o SubSeq(acc, k + 1, Len(acc)), Tail(rest))

\* mutant: the sort without reverse=True
sorted_by_len_asc(seq) == SortedAscFrom(<<>>, seq)

\* sorted(seq, key=len, reverse=True)
sorted_by_len_desc(seq) == SortedFrom(<<>>, seq)

-----------------------------------------------------------------------------
(* Regular expressions of _extract_severity, src/extractor.py:37-41.       *)
(* A position p in 0..Len(t) lies between t[p] and t[p+1].                 *)

\* \b
WordBoundary(t, p) ==
    LET before == p >= 1 /\ IsWordChar(t[p])
        after  == p < Len(t) /\ IsWordChar(t[p + 1])
    IN  before # after

\* a literal at position p
LitAt(t, p, lit) ==
    p + Len(lit) <= Len(t) /\ SubSeq(t, p + 1, p + Len(lit)) = lit

\* ([0-9]|10) at p: the alternatives in the order the engine tries them,
\* each as <<captured text, end position>>
NumberAlts(t, p) ==
    (IF p < Len(t) /\ IsDigit(t[p + 1]) THEN << <<SubSeq(t, p + 1, p + 1), p + 1>> >> ELSE <<>>)
    \o (IF LitAt(t, p, <<"1","0">>) THEN << <<<<"1","0">>, p + 2>> >> ELSE <<>>)

\* \s* (least = 0) or \s+ (least = 1) at p: the end positions, longest first
SpaceEnds(t, p, least) ==
    LET run == CHOOSE q \in p..Len(t) :
                   /\ \A i \in (p + 1)..q : IsSpace(t[i])
                   /\ (q = Len(t) \/ ~IsSpace(t[q + 1]))
    IN  [k \in 1..(run - (p + least) + 1) |-> run - k + 1]

\* \s*/\s*10\b
Rest1(t, p) ==
    \E q \in Range(SpaceEnds(t, p, 0)) :
        /\ LitAt(t, q, <<"/">>)
        /\ \E r \in Range(SpaceEnds(t, q + 1, 0)) :
               LitAt(t, r, <<"1","0">>) /\ WordBoundary(t, r + 2)

\* \s+out of\s+10\b
Rest2(t, p) ==
    \E q \in Range(SpaceEnds(t, p, 1)) :
        /\ LitAt(t, q, <<"o","u","t"," ","o","f">>)
        /\ \E r \in Range(SpaceEnds(t, q + 6, 1)) :
               LitAt(t, r, <<"1","0">>) /\ WordBoundary(t, r + 2)

\* r"\b([0-9]|10)\s*/\s*10\b" anchored at s: group 1 of the match, or None
Pattern1At(t, s) ==
    IF ~WordBoundary(t, s) THEN None
    ELSE LET alts == NumberAlts(t, s)
         IN  FirstSome([i \in DOMAIN alts |->
                 IF Rest1(t, alts[i][2]) THEN Some(alts[i][1]) ELSE None])

\* r"\b([0-9]|10)\s+out of\s+10\b" anchored at s
Pattern2At(t, s) ==
    IF ~WordBoundary(t, s) THEN None
    ELSE LET alts == NumberAlts(t, s)
         IN  FirstSome([i \in DOMAIN alts |->
                 IF Rest2(t, alts[i][2]) THEN Some(alts[i][1]) ELSE None])

\* (?:about|around|roughly)? at s: the end positions in the order tried
HedgeEnds(t, s) ==
    LET hedges == << <<"a","b","o","u","t">>, <<"a","r","o","u","n","d">>, <<"r","o","u","g","h","l","y">> >>
        hit == FirstSome([i \in DOMAIN hedges |->
                   IF LitAt(t, s, hedges[i]) THEN Some(s + Len(hedges[i])) ELSE None])
    IN  hit \o <<s>>

\* \s*([0-9]|10)\b at h
Tail3(t, h) ==
    LET ends == SpaceEnds(t, h, 0)
    IN  FirstSome([k \in DOMAIN ends |->
            LET alts == NumberAlts(t, ends[k])
            IN  FirstSome([i \in DOMAIN alts |->
                    IF WordBoundary(t, alts[i][2]) THEN Some(alts[i][1]) ELSE None])])

\* r"\b(?:about|around|roughly)?\s*([0-9]|10)\b" anchored at s
Pattern3At(t, s) ==
    IF ~WordBoundary(t, s) THEN None
    ELSE LET hs == HedgeEnds(t, s)
         IN  FirstSome([j \in DOMAIN hs |-> Tail3(t, hs[j])])

\* the list `patterns`, in its order
PatternAt(n, t, s) ==
    CASE n = 1 -> Pattern1At(t, s)
      [] n = 2 -> Pattern2At(t, s)
      [] n = 3 -> Pattern3At(t, s)

\* mutant: the permissive bare-number rule tried first
patterns_fallback_first == <<3, 1, 2>>

patterns == <<1, 2, 3>>

\* int() of the captured text
int(digits) ==
    IF Len(digits) = 1 THEN DigitValue(digits[1])
    ELSE 10 * DigitValue(digits[1]) + DigitValue(digits[2])

\* the inner loop over re.finditer(pattern, lowered): the matches from left
\* to right, the first whose value lies in 0..10.  (Every start position
\* that matches is listed; finditer lists the non-overlapping ones, which
\* agree on the first, and the first always returns.)
FirstValidMatch(n, lowered) ==
    FirstSome([k \in 1..(Len(lowered) + 1) |->
        LET g == PatternAt(n, lowered, k - 1)
        IN  IF g # None /\ 0 <= int(g[1]) /\ int(g[1]) <= 10
            THEN Some(int(g[1])) ELSE None])

\* _extract_severity
_extract_severity(text) ==
    LET lowered == lower(text)
    IN  FirstSome([i \in DOMAIN patterns |-> FirstValidMatch(patterns[i], lowered)])

-----------------------------------------------------------------------------
(* _extract_symptoms, src/extractor.py:58-77 *)

\* mutant: the list of the previous call is used again
KeptList(previous) == previous

\* found: List[str] = []   (a fresh list on every call)
NewList(previous) == <<>>

RECURSIVE ScanKeywords(_, _, _)
\* for keyword in SYMPTOM_KEYWORDS: if keyword in lowered: found.append(keyword)
ScanKeywords(kws, lowered, acc) ==
    IF kws = <<>> THEN acc
    ELSE ScanKeywords(Tail(kws), lowered,
             IF Contains(Head(kws), lowered) THEN Append(acc, Head(kws)) ELSE acc)

RECURSIVE Dedupe(_, _)
\* for s in found: if s not in deduped: deduped.append(s)
Dedupe(list, deduped) ==
    IF list = <<>> THEN deduped
    ELSE Dedupe(Tail(list),
             IF Head(list) \in Range(deduped) THEN deduped ELSE Append(deduped, Head(list)))

_extract_symptoms(text, kws) ==
    Dedupe(ScanKeywords(kws, lower(text), NewList(<<>>)), <<>>)

-----------------------------------------------------------------------------
(* _compute_confidence, src/extractor.py:80-90, in hundredths *)

Min(a, b) == IF a <= b THEN a ELSE b
Max(a, b) == IF a >= b THEN a ELSE b

Base == 50
SymptomBonus == 25
SeverityBonus == 15
Ceiling == 99

_compute_confidence(num_symptoms, has_severity) ==
    LET base1 == Base + (IF num_symptoms > 0 THEN SymptomBonus ELSE 0)
        base2 == base1 + (IF has_severity THEN SeverityBonus ELSE 0)
    IN  Min(Max(base2, 0), Ceiling)

\* mutant: the truth value of severity, which is false for 0
SeverityTruthy(sev) == sev # None /\ sev[1] # 0

\* severity is not None
HasSeverity(sev) == sev # None

-----------------------------------------------------------------------------
(* extract_clinical_data, src/extractor.py:93-116 *)

\* mutant: a truth test added to the type check
IsNonEmptyStr(x) == x.kind = "str" /\ x.val # <<>>

\* isinstance(user_text, str)
IsStr(x) == x.kind = "str"

\* [SNOMED_SYMPTOM_MAP[s] for s in symptoms]
CodesList(map, syms) == [i \in DOMAIN syms |-> Lookup(map, syms[i])]

\* mutant: the codes deduplicated
CodesDeduped(map, syms) == Dedupe(CodesList(map, syms), <<>>)

CodesOf(map, syms) == CodesList(map, syms)

\* mutant: the lower-cased text stored as original_text
RecordLowered(text, syms, codes, sev, conf) ==
    [original_text      |-> lower(text),
     extracted_symptoms |-> syms,
     snomed_codes       |-> codes,
     severity           |-> sev,
     confidence_score   |-> conf]

\* mutant: the severity key left out when nothing was found
RecordOmitNone(text, syms, codes, sev, conf) ==
    IF sev = None
    THEN [original_text      |-> text,
          extracted_symptoms |-> syms,
          snomed_codes       |-> codes,
          confidence_score   |-> conf]
    ELSE [original_text      |-> text,
          extracted_symptoms |-> syms,
          snomed_codes       |-> codes,
          severity           |-> sev,
          confidence_score   |-> conf]

\* the returned dictionary
Record(text, syms, codes, sev, conf) ==
    [original_text      |-> text,
     extracted_symptoms |-> syms,
     snomed_codes       |-> codes,
     severity           |-> sev,
     confidence_score   |-> conf]

\* one whole call on a text, with the catalog as constructed at import
extract_clinical_data(text) ==
    LET syms == _extract_symptoms(text, sorted_by_len_desc(keys(CATALOG)))
        codes == CodesOf(CATALOG, syms)
        sev == _extract_severity(text)
        conf == _compute_confidence(Len(syms), HasSeverity(sev))
    IN  Record(text, syms, codes, sev, conf)

-----------------------------------------------------------------------------
(* Inputs *)

InputFragments ==
    { <<"p","e","l","v","i","c"," ","p","a","i","n">>, <<"a","b","d","o","m","i","n","a","l"," ","p","a","i","n">>, <<"l","o","w","e","r"," ","b","a","c","k"," ">>, <<"p","a","i","n">>, <<"c","r","a","m","p","s">>, <<"n","a","u","s","e","a">>,
      <<"H","e","a","d","a","c","h","e">>, <<"M","I","G","R","A","I","N","E">>, <<"f","a","t","i","g","u","e","d">>, <<"b","l","o","a","t","i","n","g">>, <<"D","y","s","m","e","n","o","r","r","h","e","a">>,
      <<" ">>, <<"x">>, <<"1">>, <<"0">>, <<"/","1","0">>, <<"7","/","1","0">>, <<"7"," ","o","u","t"," ","o","f"," ","1","0">>, <<"a","b","o","u","t"," ","3"," ">>, <<"3"," ","d","a","y","s"," ">> }

RECURSIVE TextsUpTo(_)
\* the texts made of at most n fragments
TextsUpTo(n) ==
    IF n = 0 THEN {<<>>}
    ELSE LET shorter == TextsUpTo(n - 1)
         IN  shorter \cup {t \o f : t \in shorter, f \in InputFragments}

Str(t) == [kind |-> "str", val |-> t]

\* arguments that are not text: a number, None
NonText == {[kind |-> "int", val |-> <<>>], [kind |-> "NoneType", val |-> <<>>]}

Inputs == {Str(t) : t \in TextsUpTo(MaxFrags)} \cup NonText

\* the arguments of the side-by-side callers
ConcurrentInputs ==
    { Str(<<"C","r","a","m","p","s"," ","7","/","1","0">>), Str(<<"p","e","l","v","i","c"," ","p","a","i","n"," ","a","n","d"," ","n","a","u","s","e","a">>), Str(<<"a","b","o","u","t"," ","3"," ">>), Str(<<>>),
      [kind |-> "int", val |-> <<>>] }

Callers == 1..NumCallers

-----------------------------------------------------------------------------
(* State after import of the module and construction of the session *)

Init ==
    /\ SNOMED_SYMPTOM_MAP = CATALOG
    /\ SYMPTOM_KEYWORDS = sorted_by_len_desc(keys(CATALOG))
    /\ pc = [c \in Callers |-> "idle"]
    /\ user_text = [c \in Callers |-> [kind |-> "NoneType", val |-> <<>>]]
    /\ found = [c \in Callers |-> <<>>]
    /\ symptoms = [c \in Callers |-> <<>>]
    /\ snomed_codes = [c \in Callers |-> <<>>]
    /\ severity = [c \in Callers |-> None]
    /\ confidence = [c \in Callers |-> None]
    /\ result = [c \in Callers |-> None]
    /\ chat_history = <<>>
    /\ app_pc = "idle"
    /\ prompt = None
    /\ extracted = None
    /\ extract_calls = 0

-----------------------------------------------------------------------------
(* extract_clinical_data step by step, one caller c *)

\* entry and the type check, lines 102-103; on text, entry of
\* _extract_symptoms up to line 64
Call(c, x) ==
    /\ pc[c] \in {"idle", "returned", "raised"}
    /\ user_text' = [user_text EXCEPT ![c] = x]
    /\ result' = [result EXCEPT ![c] = None]
    /\ symptoms' = [symptoms EXCEPT ![c] = <<>>]
    /\ snomed_codes' = [snomed_codes EXCEPT ![c] = <<>>]
    /\ severity' = [severity EXCEPT ![c] = None]
    /\ confidence' = [confidence EXCEPT ![c] = None]
    /\ IF IsStr(x)
       THEN /\ found' = [found EXCEPT ![c] = NewList(found[c])]
            /\ pc' = [pc EXCEPT ![c] = "scan"]
       ELSE /\ found' = found
            /\ pc' = [pc EXCEPT ![c] = "raised"]
    /\ UNCHANGED <<globalVars, appVars>>

\* lines 66-70
Scan(c) ==
    /\ pc[c] = "scan"
    /\ found' = [found EXCEPT ![c] =
           ScanKeywords(SYMPTOM_KEYWORDS, lower(user_text[c].val), found[c])]
    /\ pc' = [pc EXCEPT ![c] = "dedupe"]
    /\ UNCHANGED <<globalVars, appVars, user_text, symptoms, snomed_codes, severity, confidence, result>>

\* lines 73-77 and the assignment of line 105
DedupeFound(c) ==
    /\ pc[c] = "dedupe"
    /\ symptoms' = [symptoms EXCEPT ![c] = Dedupe(found[c], <<>>)]
    /\ pc' = [pc EXCEPT ![c] = "codes"]
    /\ UNCHANGED <<globalVars, appVars, user_text, found, snomed_codes, severity, confidence, result>>

\* line 106
LookupCodes(c) ==
    /\ pc[c] = "codes"
    /\ snomed_codes' = [snomed_codes EXCEPT ![c] = CodesOf(SNOMED_SYMPTOM_MAP, symptoms[c])]
    /\ pc' = [pc EXCEPT ![c] = "severity"]
    /\ UNCHANGED <<globalVars, appVars, user_text, found, symptoms, severity, confidence, result>>

\* line 107
ExtractSeverity(c) ==
    /\ pc[c] = "severity"
    /\ severity' = [severity EXCEPT ![c] = _extract_severity(user_text[c].val)]
    /\ pc' = [pc EXCEPT ![c] = "confidence"]
    /\ UNCHANGED <<globalVars, appVars, user_text, found, symptoms, snomed_codes, confidence, result>>

\* line 108
ComputeConfidence(c) ==
    /\ pc[c] = "confidence"
    /\ confidence' = [confidence EXCEPT ![c] =
           _compute_confidence(Len(symptoms[c]), HasSeverity(severity[c]))]
    /\ pc' = [pc EXCEPT ![c] = "return"]
    /\ UNCHANGED <<globalVars, appVars, user_text, found, symptoms, snomed_codes, severity, result>>

\* lines 110-116
Return(c) ==
    /\ pc[c] = "return"
    /\ result' = [result EXCEPT ![c] =
           Some(Record(user_text[c].val, symptoms[c], snomed_codes[c], severity[c], confidence[c]))]
    /\ pc' = [pc EXCEPT ![c] = "returned"]
    /\ UNCHANGED <<globalVars, appVars, user_text, found, symptoms, snomed_codes, severity, confidence>>

\* one caller, one call on any input
Next ==
    \/ pc[1] = "idle" /\ \E x \in Inputs : Call(1, x)
    \/ Scan(1)
    \/ DedupeFound(1)
    \/ LookupCodes(1)
    \/ ExtractSeverity(1)
    \/ ComputeConfidence(1)
    \/ Return(1)

Spec == Init /\ [][Next]_vars

\* several callers, each calling again and again, their steps interleaved
NextConcurrent ==
    \E c \in Callers :
        \/ \E x \in ConcurrentInputs : Call(c, x)
        \/ Scan(c)
        \/ DedupeFound(c)
        \/ LookupCodes(c)
        \/ ExtractSeverity(c)
        \/ ComputeConfidence(c)
        \/ Return(c)

SpecConcurrent == Init /\ [][NextConcurrent]_vars

-----------------------------------------------------------------------------
(* The chat surface, src/app.py *)

\* mutant: the entry put in front of the transcript
add_message_front(history, role, content, rec) ==
    <<[role |-> role, content |-> content, extracted |-> rec]>> \o history

\* add_message: chat_history.append({...})
add_message(history, role, content, rec) ==
    Append(history, [role |-> role, content |-> content, extracted |-> rec])

RECURSIVE Join(_, _)
\* sep.join(list)
Join(sep, list) ==
    IF list = <<>> THEN <<>>
    ELSE IF Len(list) = 1 THEN list[1]
    ELSE list[1] \o sep \o Join(sep, Tail(list))

\* str() of an integer in 0..10
str(n) == IF n = 10 THEN <<"1","0">> ELSE <<Digits[n + 1]>>

\* build_response_text
build_response_text(rec) ==
    LET syms == rec.extracted_symptoms
        sev == rec.severity
        base1 == IF syms # <<>>
                 THEN <<"I","'","m"," ","s","o","r","r","y"," ","y","o","u","'","r","e"," ","e","x","p","e","r","i","e","n","c","i","n","g"," ">> \o Join(<<","," ">>, syms) \o <<".">>
                 ELSE <<"T","h","a","n","k"," ","y","o","u"," ","f","o","r"," ","s","h","a","r","i","n","g"," ","h","o","w"," ","y","o","u","'","r","e"," ","f","e","e","l","i","n","g",".">>
        base2 == IF sev # None
                 THEN base1 \o <<" ","Y","o","u","'","v","e"," ","r","a","t","e","d"," ","t","h","i","s"," ","a","r","o","u","n","d"," ">> \o str(sev[1]) \o <<"/","1","0",".">>
                 ELSE base1
    IN  base2 \o <<" ","I","'","v","e"," ","l","o","g","g","e","d"," ","y","o","u","r"," ","e","n","t","r","y"," ","s","o"," ","i","t"," ","c","a","n"," ","s","u","p","p","o","r","t"," ","a"," ","c","l","e","a","r","e","r"," ","c","l","i","n","i","c","a","l"," ","p","i","c","t","u","r","e"," ","o","v","e","r"," ","t","i","m","e",".">>

\* what the user types into st.chat_input
AppPrompts ==
    { <<"C","r","a","m","p","s"," ","7","/","1","0">>, <<"p","e","l","v","i","c"," ","p","a","i","n"," ","a","n","d"," ","n","a","u","s","e","a">>, <<"a","b","o","u","t"," ","3"," ">>, <<"h","e","l","l","o">> }

\* a script run with nothing submitted: `if prompt:` is false
Rerun ==
    /\ app_pc = "idle"
    /\ prompt' = None
    /\ UNCHANGED <<globalVars, extractorVars, chat_history, app_pc, extracted, extract_calls>>

\* main(), lines 114-127: a submitted prompt is shown and logged
SubmitPrompt(p) ==
    /\ app_pc = "idle"
    /\ p # <<>>
    /\ Len(chat_history) < 2 * MaxTurns
    /\ prompt' = Some(p)
    /\ chat_history' = add_message(chat_history, "user", p, None)
    /\ app_pc' = "extract"
    /\ UNCHANGED <<globalVars, extractorVars, extracted, extract_calls>>

\* main(), lines 130-133
RunExtraction ==
    /\ app_pc = "extract"
    /\ extracted' = Some(extract_clinical_data(prompt[1]))
    /\ extract_calls' = extract_calls + 1
    /\ app_pc' = "respond"
    /\ UNCHANGED <<globalVars, extractorVars, chat_history, prompt>>

\* main(), lines 135-140; the script run ends
Respond ==
    /\ app_pc = "respond"
    /\ chat_history' = add_message(chat_history, "assistant",
                                   build_response_text(extracted[1]), extracted)
    /\ app_pc' = "idle"
    /\ UNCHANGED <<globalVars, extractorVars, prompt, extracted, extract_calls>>

NextChat ==
    \/ Rerun
    \/ \E p \in AppPrompts : SubmitPrompt(p)
    \/ RunExtraction
    \/ Respond

SpecChat == Init /\ [][NextChat]_vars

-----------------------------------------------------------------------------
(* Properties *)

Returned(c) == pc[c] = "returned"
Rec(c) == result[c][1]
Phrases == Range(keys(CATALOG))
PhraseIndex(k) == CHOOSE i \in DOMAIN CATALOG : CATALOG[i][1] = k
FieldsOfRecord == {"original_text", "extracted_symptoms", "snomed_codes", "severity", "confidence_score"}

\* C1: in every returned record extracted_symptoms and the code list have
\* the same length, and the i-th code is the catalog's code of the i-th
\* phrase (looked up per phrase, so a shared code may appear twice).
C1CodesParallel ==
    \A c \in Callers : Returned(c) =>
        LET r == Rec(c)
        IN  /\ Len(r.extracted_symptoms) = Len(r.snomed_codes)
            /\ \A i \in DOMAIN r.extracted_symptoms :
                   \E j \in DOMAIN CATALOG :
                       CATALOG[j] = <<r.extracted_symptoms[i], r.snomed_codes[i]>>

\* two matched phrases that share one code: the code is listed twice
C1Witness ==
    \E c \in Callers :
        /\ Returned(c)
        /\ Rec(c).extracted_symptoms = << <<"a","b","d","o","m","i","n","a","l"," ","p","a","i","n">>, <<"p","e","l","v","i","c"," ","p","a","i","n">> >>
        /\ Rec(c).snomed_codes = << <<"2","1","5","2","2","0","0","1">>, <<"2","1","5","2","2","0","0","1">> >>

\* C2: extracted_symptoms holds exactly the catalog phrases that are
\* substrings of the lower-cased input, each once, longest first and, at
\* equal length, in catalog order; with no such phrase both lists are empty.
C2SymptomsExact ==
    \A c \in Callers : Returned(c) =>
        LET r == Rec(c)
            syms == r.extracted_symptoms
            low == lower(r.original_text)
            present == {k \in Phrases :
                           \E i \in 0..(Len(low) - Len(k)) :
                               \A j \in 1..Len(k) : low[i + j] = k[j]}
        IN  /\ Range(syms) = present
            /\ \A i, j \in DOMAIN syms : i # j => syms[i] # syms[j]
            /\ \A i, j \in DOMAIN syms : i < j =>
                   \/ Len(syms[i]) > Len(syms[j])
                   \/ /\ Len(syms[i]) = Len(syms[j])
                      /\ PhraseIndex(syms[i]) < PhraseIndex(syms[j])
            /\ (present = {} => syms = <<>> /\ r.snomed_codes = <<>>)

\* the longer phrase comes first although it stands later in the text, and
\* the upper-case phrase inside a longer word is matched
C2Witness ==
    \E c \in Callers :
        /\ Returned(c)
        /\ \/ /\ Rec(c).original_text = <<"c","r","a","m","p","s","p","e","l","v","i","c"," ","p","a","i","n">>
              /\ Rec(c).extracted_symptoms = << <<"p","e","l","v","i","c"," ","p","a","i","n">>, <<"c","r","a","m","p","s">> >>
           \/ /\ Rec(c).original_text = <<"x","M","I","G","R","A","I","N","E">>
              /\ Rec(c).extracted_symptoms = << <<"m","i","g","r","a","i","n","e">> >>

MatchStarts(n, t) == {s \in 0..Len(t) : PatternAt(n, t, s) # None}
Least(S) == CHOOSE x \in S : \A y \in S : x <= y

\* C3: severity is None exactly when none of the three rules matches
\* anywhere in the lower-cased text; otherwise it is the number captured by
\* the leftmost match of the first rule that matches at all, and it lies in
\* 0..10.
C3SeverityRule ==
    \A c \in Callers : Returned(c) =>
        LET r == Rec(c)
            low == lower(r.original_text)
            matching == {n \in 1..3 : MatchStarts(n, low) # {}}
        IN  /\ (r.severity = None) <=> (matching = {})
            /\ matching # {} =>
                   LET n == Least(matching)
                       s == Least(MatchStarts(n, low))
                   IN  r.severity = Some(int(PatternAt(n, low, s)[1]))
            /\ r.severity # None => r.severity[1] \in 0..10

\* the bare 3 stands first in the text, the N/10 rule still decides
C3Witness ==
    \E c \in Callers :
        /\ Returned(c)
        /\ Rec(c).original_text = <<"3"," ","d","a","y","s"," ","7","/","1","0">>
        /\ Rec(c).severity = Some(7)

\* C4: confidence_score is 0.50, plus 0.25 with at least one symptom, plus
\* 0.15 with a severity found (0 counts as found): one of 0.5, 0.65, 0.75,
\* 0.9, within [0, 0.99] and at most 0.90.
C4ConfidenceFormula ==
    \A c \in Callers : Returned(c) =>
        LET r == Rec(c)
        IN  /\ r.confidence_score =
                   50 + (IF r.extracted_symptoms # <<>> THEN 25 ELSE 0)
                      + (IF r.severity # None THEN 15 ELSE 0)
            /\ r.confidence_score \in {50, 65, 75, 90}
            /\ 0 <= r.confidence_score /\ r.confidence_score <= 99
            /\ r.confidence_score <= 90

\* a severity of 0 was found and earns the bonus
C4Witness ==
    \E c \in Callers :
        /\ Returned(c)
        /\ Rec(c).severity = Some(0)
        /\ Rec(c).extracted_symptoms = <<>>
        /\ Rec(c).confidence_score = 65

\* C5: the call fails (TypeError, no record) exactly when the argument is
\* not text; a call on text, the empty one included, is at one of its steps
\* or has returned, and what it returns is a complete record; the empty text gives empty lists, no
\* severity and 0.5.
C5OnlyTypeError ==
    \A c \in Callers :
        /\ pc[c] = "raised" => ~(user_text[c].kind = "str") /\ result[c] = None
        /\ (pc[c] # "idle" /\ user_text[c].kind # "str") => pc[c] = "raised"
        /\ (pc[c] # "idle" /\ user_text[c].kind = "str") =>
               pc[c] \in {"scan", "dedupe", "codes", "severity", "confidence", "return", "returned"}
        /\ Returned(c) =>
               /\ result[c] # None
               /\ DOMAIN Rec(c) = FieldsOfRecord
               /\ (user_text[c].val = <<>> =>
                       /\ Rec(c).extracted_symptoms = <<>>
                       /\ Rec(c).snomed_codes = <<>>
                       /\ Rec(c).severity = None
                       /\ Rec(c).confidence_score = 50)

\* a number was passed and the call raised
C5Witness ==
    \E c \in Callers :
        pc[c] = "raised" /\ user_text[c].kind = "int" /\ result[c] = None

\* the empty text was passed and the call returned
C5WitnessEmpty ==
    \E c \in Callers : Returned(c) /\ user_text[c] = Str(<<>>)

\* C6 as stated: the record's fields are named exactly original_text,
\* extracted_symptoms, coded_terms, severity and confidence_score.
C6FieldNamesOriginal ==
    \A c \in Callers : Returned(c) =>
        DOMAIN Rec(c) = {"original_text", "extracted_symptoms", "coded_terms",
                         "severity", "confidence_score"}

\* C6 amended: the record's fields are named exactly original_text,
\* extracted_symptoms, snomed_codes, severity and confidence_score.
C6FieldNames ==
    \A c \in Callers : Returned(c) =>
        DOMAIN Rec(c) = {"original_text", "extracted_symptoms", "snomed_codes",
                         "severity", "confidence_score"}

\* a record without severity was returned
C6Witness ==
    \E c \in Callers : Returned(c) /\ Len(Rec(c).original_text) > 0 /\ Rec(c).severity = None

\* C7: every code of the catalog is a string of 9 digits; the phrases are
\* unique and lower-case; several phrases may share a code.
C7CatalogFormat ==
    /\ \A i \in DOMAIN SNOMED_SYMPTOM_MAP :
           /\ Len(SNOMED_SYMPTOM_MAP[i][2]) = 9
           /\ \A j \in DOMAIN SNOMED_SYMPTOM_MAP[i][2] : IsDigit(SNOMED_SYMPTOM_MAP[i][2][j])
           /\ lower(SNOMED_SYMPTOM_MAP[i][1]) = SNOMED_SYMPTOM_MAP[i][1]
    /\ \A i, j \in DOMAIN SNOMED_SYMPTOM_MAP :
           i # j => SNOMED_SYMPTOM_MAP[i][1] # SNOMED_SYMPTOM_MAP[j][1]

\* C8: the extractor leaves the catalog and the keyword list as they were,
\* and every call, whatever ran before it or beside it, returns the record
\* of a single call on its text; calls on the same text return equal records.
C8CallsIndependent ==
    /\ SNOMED_SYMPTOM_MAP = CATALOG
    /\ SYMPTOM_KEYWORDS = << <<"l","o","w","e","r"," ","b","a","c","k"," ","p","a","i","n">>, <<"a","b","d","o","m","i","n","a","l"," ","p","a","i","n">>, <<"d","y","s","m","e","n","o","r","r","h","e","a">>,
                             <<"p","e","l","v","i","c"," ","p","a","i","n">>, <<"m","i","g","r","a","i","n","e">>, <<"b","l","o","a","t","i","n","g">>, <<"h","e","a","d","a","c","h","e">>,
                             <<"f","a","t","i","g","u","e">>, <<"c","r","a","m","p","s">>, <<"n","a","u","s","e","a">> >>
    /\ \A c \in Callers : Returned(c) =>
           result[c] = Some(extract_clinical_data(user_text[c].val))
    /\ \A c, d \in Callers :
           (Returned(c) /\ Returned(d) /\ user_text[c] = user_text[d]) => result[c] = result[d]

\* one caller has returned while another is in the middle of a call on a
\* different text
C8Witness ==
    \E c, d \in Callers :
        /\ c # d
        /\ Returned(c)
        /\ Rec(c).extracted_symptoms = << <<"c","r","a","m","p","s">> >>
        /\ pc[d] = "severity"
        /\ symptoms[d] = << <<"p","e","l","v","i","c"," ","p","a","i","n">>, <<"n","a","u","s","e","a">> >>

\* C9: original_text of the returned record is the argument as passed,
\* not its lower-cased form.
C9OriginalTextVerbatim ==
    \A c \in Callers : Returned(c) => Rec(c).original_text = user_text[c].val

\* a text with capitals was matched in lower case and returned as passed
C9Witness ==
    \E c \in Callers :
        /\ Returned(c)
        /\ user_text[c].val = <<"H","e","a","d","a","c","h","e">>
        /\ Rec(c).original_text = <<"H","e","a","d","a","c","h","e">>
        /\ Rec(c).extracted_symptoms = << <<"h","e","a","d","a","c","h","e">> >>

C10Shape ==
    /\ \A i \in DOMAIN chat_history :
           IF i % 2 = 1
           THEN /\ chat_history[i].role = "user"
                /\ chat_history[i].extracted = None
           ELSE /\ chat_history[i].role = "assistant"
                /\ chat_history[i].extracted # None
                /\ chat_history[i].extracted[1].original_text = chat_history[i - 1].content
                /\ chat_history[i].extracted[1] = extract_clinical_data(chat_history[i - 1].content)
    /\ app_pc = "idle" => Len(chat_history) % 2 = 0 /\ 2 * extract_calls = Len(chat_history)
    /\ app_pc = "extract" => 2 * extract_calls + 1 = Len(chat_history)
    /\ app_pc = "respond" => 2 * extract_calls = Len(chat_history) + 1

C10AppendOnly ==
    /\ Len(chat_history') >= Len(chat_history)
    /\ SubSeq(chat_history', 1, Len(chat_history)) = chat_history

\* C10: the transcript only grows at its end and alternates user and
\* assistant entries in submission order; each user turn runs the extractor
\* once, the user entry carries no record and the assistant entry after it
\* carries the record of that user entry's text.
C10TranscriptAlternates == []C10Shape /\ [][C10AppendOnly]_vars

\* two turns with different prompts are complete
C10Witness ==
    /\ app_pc = "idle"
    /\ Len(chat_history) = 4
    /\ chat_history[1].content = <<"C","r","a","m","p","s"," ","7","/","1","0">>
    /\ chat_history[3].content = <<"h","e","l","l","o">>
    /\ chat_history[4].extracted[1].severity = None
    /\ extract_calls = 2

====
